---- MODULE Spec2Model ----
(***************************************************************************)
(* Model of productcatalog.py: a Streamlit script that loads a spreadsheet *)
(* of products, validates its columns, cleans them, derives the sidebar    *)
(* filter widgets, and - when 'Apply Filters' is pressed - filters, sorts  *)
(* and renders the products with a per-row 'Add to Wishlist' button.       *)
(*                                                                         *)
(* Streamlit re-executes the whole script once per user interaction.  A    *)
(* button returns True only in the run its own press caused; a widget the  *)
(* run does not reach loses its stored value.  Each action below is one    *)
(* interaction together with the complete script run it causes.            *)
(*                                                                         *)
(* Numbers are fixed-point integers counted in halves (3 is 1.5), so that  *)
(* int() truncation and fractional prices/ratings are representable.       *)
(* Timestamps are counted in half-days since 2000-01-01 00:00, so that a   *)
(* launch date may carry a time of day and .date() truncates it.           *)
(* Text that the code parses or compares (Price, Discount, Stock, Rating,  *)
(* Launch Date cells) is a tuple of one-character strings; text the code   *)
(* only copies or tests for equality (names, categories, ids) is a string. *)
(***************************************************************************)
EXTENDS Integers, Sequences, FiniteSets, TLC

VARIABLES
    uploaded_file,      \* the file in the uploader: NoFile, Corrupt or a table
    widgets,            \* stored values of the sidebar widgets the last run rendered
    pressed,            \* the interaction that caused the last run
    session_state,      \* st.session_state: a function, "wishlist" in its domain once set
    status,             \* where the last run ended
    error,              \* the error message of the last run (<<>> if none)
    products,           \* the cleaned table of the last run (<<>> if not cleaned)
    queried,            \* whether the last run evaluated the filter/sort query
    filtered_products,  \* the rows rendered as product cards by the last run
    wishlist_view,      \* what the last run wrote under 'Your Wishlist'
    changes             \* number of filter-widget changes so far in the session

vars == <<uploaded_file, widgets, pressed, session_state, status, error,
          products, queried, filtered_products, wishlist_view, changes>>

-----------------------------------------------------------------------------
(* Bounds of the model *)

\* Largest number of rows of an uploaded table in the session model.
MaxRows == 2

\* Largest number of filter-widget changes in one session.
MaxChanges == 2

\* Number of distinct product names offered to the wishlist handler.
MaxNames == 5

-----------------------------------------------------------------------------
(* Cells *)

NaN == [k |-> "nan"]
Num(units) == [k |-> "num", v |-> 2 * units]
NumH(halves) == [k |-> "num", v |-> halves]
Text(s) == [k |-> "text", s |-> s]
Date(day) == [k |-> "date", v |-> 2 * day]
DateH(halfdays) == [k |-> "date", v |-> halfdays]

IsNum(c) == c.k = "num"
IsNaN(c) == c.k = "nan"
IsText(c) == c.k = "text"
IsDate(c) == c.k = "date"

Range(s) == {s[i] : i \in DOMAIN s}

SetMin(S) == CHOOSE x \in S : \A y \in S : x <= y
SetMax(S) == CHOOSE x \in S : \A y \in S : y <= x

\* int(x) of a non-negative fixed-point number: truncation to whole units.
IntOf(v) == v \div 2

\* A whole number n as a fixed-point value, for comparison with a column.
Fixed(n) == 2 * n

DigitChars == <<"0", "1", "2", "3", "4", "5", "6", "7", "8", "9">>

IsDigit(ch) == \E i \in 1..10 : DigitChars[i] = ch

DigitVal(ch) == (CHOOSE i \in 1..10 : DigitChars[i] = ch) - 1

\* The value of a non-empty tuple of digits, in whole units.
RECURSIVE DigitsValue(_)
DigitsValue(s) ==
    IF Len(s) = 0 THEN 0
    ELSE 10 * DigitsValue(SubSeq(s, 1, Len(s) - 1)) + DigitVal(s[Len(s)])

\* The decimal digits of a natural number.
RECURSIVE Digits(_)
Digits(n) ==
    IF n < 10 THEN <<DigitChars[n + 1]>>
    ELSE Digits(n \div 10) \o <<DigitChars[(n % 10) + 1]>>

UpperChars == <<"I", "N", "S", "T", "O", "C", "K", "U", "F">>
LowerChars == <<"i", "n", "s", "t", "o", "c", "k", "u", "f">>

\* str.lower() on one character of the model's alphabet.
LowerChar(ch) ==
    IF \E i \in DOMAIN UpperChars : UpperChars[i] = ch
    THEN LowerChars[CHOOSE i \in DOMAIN UpperChars : UpperChars[i] = ch]
    ELSE ch

Lower(s) == [i \in DOMAIN s |-> LowerChar(s[i])]

\* str(x) of a cell value.
StrOf(c) ==
    IF IsText(c) THEN c.s
    ELSE IF IsNum(c)
         THEN Digits(c.v \div 2) \o (IF c.v % 2 = 1 THEN <<".", "5">> ELSE <<>>)
         ELSE <<"n", "a", "n">>

-----------------------------------------------------------------------------
(* Loading and schema validation *)

NoFile == [kind |-> "none"]
Corrupt == [kind |-> "corrupt"]
Table(columns, rows) == [kind |-> "table", columns |-> columns, rows |-> rows]

IsTable(f) == f.kind = "table"

NoError == <<>>

required_columns ==
    <<"Product Name", "Category", "Price", "Discount", "Stock", "Rating",
      "Features", "Image URL", "Launch Date", "Product ID">>

RequiredSet == Range(required_columns)

\* load_data: an unreadable file and an empty table both end in st.error + st.stop.
LoadError(f) ==
    IF f.kind = "corrupt" THEN <<"An error occurred while loading the data">>
    ELSE IF Len(f.rows) = 0 THEN <<"The uploaded Excel file is empty.">>
    ELSE NoError

\* A validation loop that keeps the last missing column instead of stopping
\* at the first.
MissingLast(cols) ==
    IF \A i \in DOMAIN required_columns : required_columns[i] \in cols THEN 0
    ELSE SetMax({i \in DOMAIN required_columns : required_columns[i] \notin cols})

\* Index in required_columns of the column the validation loop stops at, 0 if none.
MissingColumn(cols) ==
    IF \A i \in DOMAIN required_columns : required_columns[i] \in cols THEN 0
    ELSE SetMin({i \in DOMAIN required_columns : required_columns[i] \notin cols})

MissingMessage(i) == <<"Missing required column: ", required_columns[i]>>

-----------------------------------------------------------------------------
(* Data cleaning *)

\* .replace({'\\$': '', ',': ''}, regex=True): text cells lose '$' and ','.
StripCurrency(c) ==
    IF IsText(c) THEN Text(SelectSeq(c.s, LAMBDA ch : ch \notin {"$", ","}))
    ELSE c

\* pd.to_numeric(errors='coerce'): a number stays, a text of digits parses,
\* anything else becomes NaN.
ToNumeric(c) ==
    IF IsNum(c) THEN c
    ELSE IF IsText(c) /\ Len(c.s) > 0 /\ \A i \in DOMAIN c.s : IsDigit(c.s[i])
         THEN Num(DigitsValue(c.s))
         ELSE NaN

\* pd.to_datetime(errors='coerce'): a date stays, anything else becomes NaT.
ToDatetime(c) == IF IsDate(c) THEN c ELSE NaN

FillNa(c, dflt) == IF IsNaN(c) THEN dflt ELSE c

Times100(c) == IF IsNum(c) THEN NumH(c.v * 100) ELSE c

InStockText == <<"i", "n", " ", "s", "t", "o", "c", "k">>

StockFlag(c) == IF Lower(StrOf(c)) = InStockText THEN Num(1) ELSE Num(0)

CleanPrice(c) == ToNumeric(StripCurrency(c))

CleanDiscount(c) == FillNa(Times100(ToNumeric(c)), Num(0))

CleanLaunchDate(c) == FillNa(ToDatetime(c), Date(0))

CleanRating(c) == FillNa(c, Num(0))

CleanRow(r) ==
    [r EXCEPT !["Price"] = CleanPrice(@),
              !["Discount"] = CleanDiscount(@),
              !["Launch Date"] = CleanLaunchDate(@),
              !["Rating"] = CleanRating(@),
              !["Stock"] = StockFlag(@)]

Clean(rows) == [i \in DOMAIN rows |-> CleanRow(rows[i])]

-----------------------------------------------------------------------------
(* Sidebar widgets: options, bounds and defaults derived from the cleaned table *)

NoWidgets == [x \in {} |-> 0]

Rendered(w, name) == name \in DOMAIN w

\* The stored value of a widget the previous run rendered, else its default.
WidgetValue(w, name, dflt) == IF Rendered(w, name) THEN w[name] ELSE dflt

CategoryOptions(P) ==
    {P[i]["Category"].s : i \in {j \in DOMAIN P : IsText(P[j]["Category"])}}

\* The non-NaN values of a numeric column (min() and max() skip NaN).
ColumnValues(P, col) == {P[i][col].v : i \in {j \in DOMAIN P : ~IsNaN(P[j][col])}}

\* int(nan) raises ValueError when the Price column holds no number at all.
HasPrice(P) == ColumnValues(P, "Price") # {}

SliderMin(P, col) == IntOf(SetMin(ColumnValues(P, col)))
SliderMax(P, col) == IntOf(SetMax(ColumnValues(P, col)))

\* .min().date() and .max().date(): the calendar day of a timestamp.
DayOf(v) == v \div 2
min_date(P) == DayOf(SetMin(ColumnValues(P, "Launch Date")))
max_date(P) == DayOf(SetMax(ColumnValues(P, "Launch Date")))

\* pd.to_datetime(date): midnight of that day.
Midnight(day) == 2 * day

RatingOptions == 0..5
SortOptions == {"Price", "Rating", "Discount"}

CategoryWidget(P, w) == WidgetValue(w, "categories", CategoryOptions(P))

\* index=5 of the options [0, 1, 2, 3, 4, 5].
RatingDefault == 5

\* The values the widgets of lines 73-100 return in a run over table P.
SidebarWidgets(P, w) ==
    [categories |-> CategoryWidget(P, w),
     price_range |-> WidgetValue(w, "price_range",
                        <<SliderMin(P, "Price"), SliderMax(P, "Price")>>),
     discount_range |-> WidgetValue(w, "discount_range",
                        <<SliderMin(P, "Discount"), SliderMax(P, "Discount")>>),
     rating |-> WidgetValue(w, "rating", RatingDefault),
     launch_date_range |-> WidgetValue(w, "launch_date_range",
                        <<min_date(P), max_date(P)>>),
     in_stock |-> WidgetValue(w, "in_stock", TRUE),
     sort_by |-> WidgetValue(w, "sort_by", "Price")]

-----------------------------------------------------------------------------
(* Filter and sort *)

\* Series.between(lo, hi): inclusive on both ends, False for NaN.
Between(c, lo, hi) == ~IsNaN(c) /\ lo <= c.v /\ c.v <= hi

\* Comparing a Rating column that still holds text with a number raises TypeError.
FilterRaises(P) == \E i \in DOMAIN P : IsText(P[i]["Rating"])

StockMask(r, in_stock) == IF in_stock THEN r["Stock"].v > 0 ELSE TRUE

\* The boolean mask of lines 106-111 for one row.
Mask(r, c) ==
    /\ IsText(r["Category"]) /\ r["Category"].s \in c.categories
    /\ Between(r["Price"], Fixed(c.price_range[1]), Fixed(c.price_range[2]))
    /\ Between(r["Discount"], Fixed(c.discount_range[1]), Fixed(c.discount_range[2]))
    /\ r["Rating"].v >= Fixed(c.rating)
    /\ Between(r["Launch Date"], Midnight(c.launch_date_range[1]),
               Midnight(c.launch_date_range[2]))
    /\ StockMask(r, c.in_stock)

\* Positions of the rows the mask keeps.
Kept(P, c) == {i \in DOMAIN P : Mask(P[i], c)}

IsOrderOf(s, S) == Range(s) = S /\ Len(s) = Cardinality(S)

Orders(S) == {s \in [1..Cardinality(S) -> S] : IsOrderOf(s, S)}

Ascending(P, s, by) == \A j \in 1..(Len(s) - 1) : P[s[j]][by].v <= P[s[j + 1]][by].v

\* sort_values(by=...) with the default kind='quicksort', which is not stable:
\* every ascending order of the kept rows is a possible outcome.
SortValues(P, S, by) == {s \in Orders(S) : Ascending(P, s, by)}

RowsAt(P, s) == [j \in DOMAIN s |-> P[s[j]]]

\* The possible values of filtered_products after lines 105-115.
FilteredProducts(P, c) == {RowsAt(P, s) : s \in SortValues(P, Kept(P, c), c.sort_by)}

-----------------------------------------------------------------------------
(* Wishlist *)

EmptySession == [x \in {} |-> 0]

HasWishlist(ss) == "wishlist" \in DOMAIN ss

Wishlist(ss) == IF HasWishlist(ss) THEN ss["wishlist"] ELSE <<>>

\* An add that appends without testing membership.
AddWithoutCheck(ss, name) == [wishlist |-> Append(Wishlist(ss), name)]

\* The body of the 'Add ... to Wishlist' button (lines 138-141).
AddToWishlist(ss, name) ==
    LET ss1 == IF ~HasWishlist(ss) THEN [wishlist |-> <<>>] ELSE ss
    IN  IF name \notin Range(ss1["wishlist"])
        THEN [wishlist |-> Append(ss1["wishlist"], name)]
        ELSE ss1

HiddenView == [on |-> FALSE, items |-> <<>>]

\* The body of the 'View Wishlist' button (lines 153-157); no items: 'empty'.
ViewWishlist(ss) ==
    [on |-> TRUE,
     items |-> IF HasWishlist(ss) /\ ss["wishlist"] # <<>> THEN ss["wishlist"] ELSE <<>>]

-----------------------------------------------------------------------------
(* One run of the script *)

NoPress == [kind |-> "none", key |-> "", name |-> ""]
Press(kind) == [kind |-> kind, key |-> "", name |-> ""]
PressAddOf(r) == [kind |-> "add", key |-> r["Product ID"].s, name |-> r["Product Name"].s]

\* A trigger that is on in every run (a reactive query).
AlwaysTrue(p) == TRUE

\* st.sidebar.button('Apply Filters'): True only in the run its press caused.
ApplyFiltersButton(p) == p.kind = "apply"

ViewWishlistButton(p) == p.kind = "view"

\* st.button(f"Add ... to Wishlist", key=row['Product ID']).
AddButton(p, r) == p.kind = "add" /\ p.key = r["Product ID"].s

\* The card loop of lines 122-142 over the rendered rows fp: each row whose
\* button was pressed runs the wishlist body.
RECURSIVE RenderCards(_, _, _)
RenderCards(fp, p, ss) ==
    IF Len(fp) = 0 THEN ss
    ELSE LET r == Head(fp)
             ss1 == IF AddButton(p, r) THEN AddToWishlist(ss, r["Product Name"].s) ELSE ss
         IN  RenderCards(Tail(fp), p, ss1)

Outcome(w, st, err, P, q, fp, ss, wv) ==
    [widgets |-> w, status |-> st, error |-> err, products |-> P, queried |-> q,
     filtered_products |-> fp, session_state |-> ss, wishlist_view |-> wv]

\* Lines 152-157, reached by every run that gets past the product list.
Finish(w, P, q, fp, ss, p) ==
    Outcome(w, "done", NoError, P, q, fp, ss,
            IF ViewWishlistButton(p) THEN ViewWishlist(ss) ELSE HiddenView)

\* Lines 103-149 and on, given the cleaned table and the widget values.
FromFilters(P, c, ss, p) ==
    IF ~ApplyFiltersButton(p) THEN {Finish(c, P, FALSE, <<>>, ss, p)}
    ELSE IF FilterRaises(P)
         THEN {Outcome(c, "exception", <<"TypeError">>, P, TRUE, <<>>, ss, HiddenView)}
         ELSE {Finish(c, P, TRUE, fp, RenderCards(fp, p, ss), p) :
                   fp \in FilteredProducts(P, c)}

\* Lines 37-100 and on, for a table with every required column.
FromCleaning(rows, w, ss, p) ==
    LET P == Clean(rows)
    IN  IF ~HasPrice(P)
        THEN {Outcome([categories |-> CategoryWidget(P, w)], "exception",
                      <<"ValueError">>, P, FALSE, <<>>, ss, HiddenView)}
        ELSE FromFilters(P, SidebarWidgets(P, w), ss, p)

\* The possible outcomes of one run of the whole script.
Script(f, w, ss, p) ==
    IF f.kind = "none"
    THEN {Outcome(NoWidgets, "no_file", NoError, <<>>, FALSE, <<>>, ss, HiddenView)}
    ELSE IF LoadError(f) # NoError
    THEN {Outcome(NoWidgets, "load_error", LoadError(f), <<>>, FALSE, <<>>, ss, HiddenView)}
    ELSE IF MissingColumn(f.columns) # 0
    THEN {Outcome(NoWidgets, "schema_error", MissingMessage(MissingColumn(f.columns)),
                  <<>>, FALSE, <<>>, ss, HiddenView)}
    ELSE FromCleaning(f.rows, w, ss, p)

\* An interaction p with file f and stored widget values w, then the run it causes.
Rerun(f, w, p) ==
    /\ uploaded_file' = f
    /\ pressed' = p
    /\ \E o \in Script(f, w, session_state, p) :
          /\ widgets' = o.widgets
          /\ status' = o.status
          /\ error' = o.error
          /\ products' = o.products
          /\ queried' = o.queried
          /\ filtered_products' = o.filtered_products
          /\ session_state' = o.session_state
          /\ wishlist_view' = o.wishlist_view

-----------------------------------------------------------------------------
(* Inputs: the spreadsheets a user may upload *)

InStockCell == Text(<<"I", "n", " ", "S", "t", "o", "c", "k">>)
UpperInStockCell == Text(<<"I", "N", " ", "S", "T", "O", "C", "K">>)
OutOfStockCell == Text(<<"O", "u", "t", " ", "o", "f", " ", "S", "t", "o", "c", "k">>)

Row(id, name, cat, price, disc, stock, rating, date) ==
    [c \in RequiredSet |->
        CASE c = "Product ID" -> Text(id)
          [] c = "Product Name" -> Text(name)
          [] c = "Category" -> cat
          [] c = "Price" -> price
          [] c = "Discount" -> disc
          [] c = "Stock" -> stock
          [] c = "Rating" -> rating
          [] c = "Launch Date" -> date
          [] c = "Features" -> Text("features")
          [] c = "Image URL" -> NaN]

\* Rows of the session model: well-formed cells, currency text, an upper-case
\* stock status, a numeric stock quantity, empty cells and unparseable text.
RowPool ==
    {Row("P1", "Lamp", Text("Home"), Num(2), Num(0), InStockCell, Num(5), Date(1)),
     Row("P2", "Book", Text("Books"), Text(<<"$", "2">>), NumH(1), UpperInStockCell,
         Num(5), DateH(3)),
     Row("P3", "Mug", Text("Home"), NumH(3), Text(<<"a", "b", "c">>), Num(3),
         NaN, NaN),
     Row("P4", "Pen", NaN, Text(<<"a", "b", "c">>), NaN, OutOfStockCell,
         Text(<<"N", "/", "A">>), Text(<<"s", "o", "o", "n">>))}

\* Every sequence of distinct rows of S with at most n rows (Product IDs unique).
TablesOf(S, n) ==
    UNION {Orders(T) : T \in {U \in SUBSET S : Cardinality(U) <= n}}

\* Column sets of an upload: complete, or lacking one or two required columns.
ColumnSets ==
    {RequiredSet \ M : M \in {N \in SUBSET RequiredSet : Cardinality(N) <= 2}}

Restrict(r, cols) == [c \in cols |-> r[c]]

Uploads ==
    {Corrupt} \cup
    {Table(cols, [i \in DOMAIN rows |-> Restrict(rows[i], cols)]) :
        cols \in ColumnSets, rows \in TablesOf(RowPool, MaxRows)}

-----------------------------------------------------------------------------
(* The session: user interactions, each followed by the run it causes *)

Init ==
    /\ uploaded_file = NoFile
    /\ widgets = NoWidgets
    /\ pressed = NoPress
    /\ session_state = EmptySession
    /\ status = "no_file"
    /\ error = NoError
    /\ products = <<>>
    /\ queried = FALSE
    /\ filtered_products = <<>>
    /\ wishlist_view = HiddenView
    /\ changes = 0

\* The user puts a file into the uploader (line 23).
Upload ==
    /\ uploaded_file.kind = "none"
    /\ \E f \in Uploads : Rerun(f, widgets, Press("upload"))
    /\ UNCHANGED changes

\* The user removes the file from the uploader; the run stops at line 25.
ClearFile ==
    /\ uploaded_file.kind # "none"
    /\ Rerun(NoFile, widgets, Press("clear"))
    /\ UNCHANGED changes

\* The user changes the widget `name` to `val`.
SetWidget(name, val) ==
    /\ Rendered(widgets, name)
    /\ changes < MaxChanges
    /\ val # widgets[name]
    /\ changes' = changes + 1
    /\ Rerun(uploaded_file, [widgets EXCEPT ![name] = val], Press("widget"))

\* The whole numbers a range slider over column col can be dragged to.
SliderStops(P, col) ==
    {IntOf(v) : v \in ColumnValues(P, col)}

Ranges(S) == {r \in S \X S : r[1] <= r[2]}

ChangeCategories ==
    \E c \in CategoryOptions(products) :
        SetWidget("categories",
                  IF c \in widgets["categories"]
                  THEN widgets["categories"] \ {c}
                  ELSE widgets["categories"] \cup {c})

ChangePriceRange ==
    \E r \in Ranges(SliderStops(products, "Price")) : SetWidget("price_range", r)

ChangeDiscountRange ==
    \E r \in Ranges(SliderStops(products, "Discount")) : SetWidget("discount_range", r)

ChangeRating == \E r \in RatingOptions : SetWidget("rating", r)

ChangeLaunchDateRange ==
    \E r \in Ranges({DayOf(v) : v \in ColumnValues(products, "Launch Date")}) :
        SetWidget("launch_date_range", r)

ChangeInStock == SetWidget("in_stock", ~widgets["in_stock"])

ChangeSortBy == \E by \in SortOptions : SetWidget("sort_by", by)

\* The user presses 'Apply Filters' (rendered by any run that reached line 103).
PressApplyFilters ==
    /\ Rendered(widgets, "sort_by")
    /\ Rerun(uploaded_file, widgets, Press("apply"))
    /\ UNCHANGED changes

\* The user presses 'View Wishlist' (rendered by any run that reached line 152).
PressViewWishlist ==
    /\ status = "done"
    /\ Rerun(uploaded_file, widgets, Press("view"))
    /\ UNCHANGED changes

\* The user presses the 'Add ... to Wishlist' button of a card on the screen.
PressAddToWishlist ==
    /\ status = "done"
    /\ \E i \in DOMAIN filtered_products :
          Rerun(uploaded_file, widgets, PressAddOf(filtered_products[i]))
    /\ UNCHANGED changes

Next ==
    \/ Upload
    \/ ClearFile
    \/ ChangeCategories
    \/ ChangePriceRange
    \/ ChangeDiscountRange
    \/ ChangeRating
    \/ ChangeLaunchDateRange
    \/ ChangeInStock
    \/ ChangeSortBy
    \/ PressApplyFilters
    \/ PressViewWishlist
    \/ PressAddToWishlist

Spec == Init /\ [][Next]_vars

-----------------------------------------------------------------------------
(* The wishlist body on its own: the code of lines 138-141 applied to the     *)
(* session state for any sequence of product names.                           *)

NamePool == <<"Lamp", "Book", "Mug", "Pen", "A", "B", "C", "D">>

Names == {NamePool[i] : i \in 1..(IF MaxNames < Len(NamePool) THEN MaxNames ELSE Len(NamePool))}

RunWishlistBody ==
    /\ \E name \in Names :
          /\ pressed' = [kind |-> "add", key |-> name, name |-> name]
          /\ session_state' = AddToWishlist(session_state, name)
    /\ UNCHANGED <<uploaded_file, widgets, status, error, products, queried,
                   filtered_products, wishlist_view, changes>>

NextWishlist == RunWishlistBody

SpecWishlist == Init /\ [][NextWishlist]_vars

-----------------------------------------------------------------------------
(* Cleaning and the filter/sort query as functions of a table and criteria  *)

\* Rows of the query model: the three rows of the end-to-end scenario, three
\* rows with prices 10, 20, 30, a second row priced 20, a row with a
\* fractional price and a numeric stock quantity, a row with a text rating.
RowA == Row("A", "A", Text("Electronics"), Num(100), Num(10), InStockCell, NumH(9), Date(10))
RowB == Row("B", "B", Text("Electronics"), Num(200), Num(0), OutOfStockCell, Num(3), Date(10))
RowC == Row("C", "C", Text("Books"), Num(50), Num(20), InStockCell, Num(5), Date(10))
Row10 == Row("X10", "Ten", Text("Electronics"), Num(10), Num(0), InStockCell, Num(5), Date(11))
Row20 == Row("X20", "Twenty", Text("Electronics"), Num(20), Num(0), InStockCell, Num(5), Date(11))
Row30 == Row("X30", "Thirty", Text("Electronics"), Num(30), Num(0), InStockCell, Num(5), Date(11))
RowTie == Row("X21", "Score", Text("Books"), Num(20), NumH(1), InStockCell, Num(4), Date(12))
RowQty == Row("X40", "Half", Text("Books"), NumH(21), Num(0), Num(5), Num(5), Date(12))
RowBadRating ==
    Row("X50", "Unrated", Text("Electronics"), Num(20), Num(0), InStockCell,
        Text(<<"N", "/", "A">>), Date(12))

ScenarioRows == <<RowA, RowB, RowC>>
BoundaryRows == <<Row10, Row20, Row30>>

QueryRowPool == {RowA, Row20, RowTie, RowQty, RowBadRating}

QueryTables ==
    {Table(RequiredSet, rows) :
        rows \in {ScenarioRows, BoundaryRows}
                 \cup (TablesOf(QueryRowPool, MaxRows) \ {<<>>})}

\* Criteria tried on a cleaned table P: the derived defaults, each field
\* either left at its derived value or set to one of a few fixed values.
QueryCriteria(P) ==
    LET d == SidebarWidgets(P, NoWidgets)
    IN  {[d EXCEPT !.categories = cs, !.price_range = pr, !.discount_range = dr,
                   !.rating = rt, !.in_stock = st, !.sort_by = by] :
            cs \in {d.categories, {"Electronics"}},
            pr \in {d.price_range, <<10, 20>>, <<0, 500>>},
            dr \in {d.discount_range, <<0, 100>>},
            rt \in {0, 4, 5},
            st \in BOOLEAN,
            by \in SortOptions}

InitQuery ==
    /\ uploaded_file \in QueryTables
    /\ widgets \in QueryCriteria(Clean(uploaded_file.rows))
    /\ pressed = NoPress
    /\ session_state = EmptySession
    /\ status = "loaded"
    /\ error = NoError
    /\ products = <<>>
    /\ queried = FALSE
    /\ filtered_products = <<>>
    /\ wishlist_view = HiddenView
    /\ changes = 0

\* Lines 38-56.
Normalize ==
    /\ status = "loaded"
    /\ products' = Clean(uploaded_file.rows)
    /\ status' = "cleaned"
    /\ UNCHANGED <<uploaded_file, widgets, pressed, session_state, error, queried,
                   filtered_products, wishlist_view, changes>>

\* Lines 105-115 with the criteria in `widgets`.
ApplyQuery ==
    /\ status = "cleaned"
    /\ queried' = TRUE
    /\ IF FilterRaises(products)
       THEN /\ status' = "exception"
            /\ error' = <<"TypeError">>
            /\ UNCHANGED filtered_products
       ELSE /\ status' = "done"
            /\ filtered_products' \in FilteredProducts(products, widgets)
            /\ UNCHANGED error
    /\ UNCHANGED <<uploaded_file, widgets, pressed, session_state, products,
                   wishlist_view, changes>>

NextQuery == Normalize \/ ApplyQuery

SpecQuery == InitQuery /\ [][NextQuery]_vars

-----------------------------------------------------------------------------
(* Properties *)

NameOfRow(r) == r["Product Name"].s

OutputNames == [j \in DOMAIN filtered_products |-> NameOfRow(filtered_products[j])]

NoDuplicates(s) == \A i, j \in DOMAIN s : s[i] = s[j] => i = j

\* Position of a rendered row in the cleaned table (Product IDs are unique).
PositionOf(r) == CHOOSE i \in DOMAIN products : products[i] = r

CompleteTable(f) == IsTable(f) /\ Len(f.rows) > 0 /\ RequiredSet \subseteq f.columns

ScenarioCriteria ==
    [categories |-> {"Electronics"}, price_range |-> <<0, 500>>,
     discount_range |-> <<0, 100>>, rating |-> 4,
     launch_date_range |-> <<10, 10>>, in_stock |-> TRUE, sort_by |-> "Price"]

\* C1: for the scenario table (A, B, C) and the scenario criteria, the
\* output of the query is exactly the sequence [A].
C1_ScenarioYieldsA ==
    (/\ status = "done"
     /\ uploaded_file.rows = ScenarioRows
     /\ widgets = ScenarioCriteria)
    => OutputNames = <<"A">>

\* C2: once the press of a displayed card's add-to-wishlist button has been
\* processed, the product's name is in the session wishlist.
C2_AddPutsNameInWishlist ==
    pressed.kind = "add" => pressed.name \in Range(Wishlist(session_state))

\* C3: the wishlist never holds a name twice, and running the add body for
\* a name that is already present leaves the session state unchanged.
C3_WishlistAddIdempotent ==
    [][/\ NoDuplicates(Wishlist(session_state'))
       /\ (pressed'.kind = "add" /\ pressed'.name \in Range(Wishlist(session_state)))
              => Wishlist(session_state') = Wishlist(session_state)]_vars

\* C3 witness: the body has run for a name that was already in the wishlist
\* (the name is present but is not the last one appended).
C3_Witness ==
    /\ pressed.kind = "add"
    /\ Len(Wishlist(session_state)) >= 2
    /\ pressed.name \in Range(Wishlist(session_state))
    /\ pressed.name # Wishlist(session_state)[Len(Wishlist(session_state))]

\* C4: a loaded table that lacks a required column ends the run with the
\* error naming the first missing column in required-column order, and
\* nothing is cleaned, queried or rendered.
C4_MissingColumnAborts ==
    (/\ IsTable(uploaded_file)
     /\ Len(uploaded_file.rows) > 0
     /\ ~(RequiredSet \subseteq uploaded_file.columns))
    => /\ status = "schema_error"
       /\ \E i \in DOMAIN required_columns :
             /\ required_columns[i] \notin uploaded_file.columns
             /\ \A j \in 1..(i - 1) : required_columns[j] \in uploaded_file.columns
             /\ error = <<"Missing required column: ", required_columns[i]>>
       /\ products = <<>>
       /\ ~queried
       /\ filtered_products = <<>>
       /\ widgets = NoWidgets

\* C4 witness: a run stopped by a table that lacks two required columns.
C4_Witness ==
    /\ status = "schema_error"
    /\ Cardinality(RequiredSet \ uploaded_file.columns) = 2
    /\ "Category" \notin uploaded_file.columns

\* C5: with the derived bounds as criteria, every category selected, the
\* lowest minimum rating and stock-only off, the query returns every row.
C5_DerivedBoundsKeepAllRows ==
    (/\ status = "done"
     /\ queried
     /\ widgets = [SidebarWidgets(products, NoWidgets) EXCEPT
                      !.rating = 0, !.in_stock = FALSE, !.sort_by = widgets.sort_by])
    => /\ Range(filtered_products) = Range(products)
       /\ Len(filtered_products) = Len(products)

\* C6: a table with every required column never aborts the run, and after
\* cleaning every Price, Discount and Rating is a number and every Launch
\* Date a date.
C6_MalformedCellNeverFatal ==
    CompleteTable(uploaded_file)
    => /\ status = "done"
       /\ \A i \in DOMAIN products :
             /\ IsNum(products[i]["Price"])
             /\ IsNum(products[i]["Discount"])
             /\ IsNum(products[i]["Rating"])
             /\ IsDate(products[i]["Launch Date"])

\* C7: the cleaned Stock is the availability: quantity > 0 for a numeric
\* cell, 'in stock' ignoring case for a text cell.
C7_StockBothEncodings ==
    status \in {"cleaned", "done"}
    => \A i \in DOMAIN products :
          LET raw == uploaded_file.rows[i]["Stock"]
              available == products[i]["Stock"].v > 0
          IN  /\ IsNum(raw) => (available <=> raw.v > 0)
              /\ IsText(raw) => (available <=> Lower(raw.s) = InStockText)

\* The six predicates of the query as the specification states them, for a
\* row whose Rating is a number.
SixPredicates(r, c) ==
    /\ IsText(r["Category"]) /\ r["Category"].s \in c.categories
    /\ IsNum(r["Price"])
    /\ 2 * c.price_range[1] <= r["Price"].v /\ r["Price"].v <= 2 * c.price_range[2]
    /\ 2 * c.discount_range[1] <= r["Discount"].v
    /\ r["Discount"].v <= 2 * c.discount_range[2]
    /\ r["Rating"].v >= 2 * c.rating
    /\ 2 * c.launch_date_range[1] <= r["Launch Date"].v
    /\ r["Launch Date"].v <= 2 * c.launch_date_range[2]
    /\ (c.in_stock => r["Stock"].v > 0)

C8_HoldsWhenQueryCompletes ==
    (status = "done" /\ queried)
    => \A i \in DOMAIN products :
          products[i] \in Range(filtered_products)
             <=> SixPredicates(products[i], widgets)

C10_QueryOnlyOnApply ==
    (queried \/ filtered_products # <<>>) => pressed.kind = "apply"

\* C10 witness: a run caused by 'Apply Filters' that rendered product cards.
C10_Witness ==
    /\ pressed.kind = "apply"
    /\ status = "done"
    /\ queried
    /\ filtered_products # <<>>

====
